---- MODULE Spec2Model ----
(***************************************************************************)
(* A model of src/script.js: the aggregation driver initDashboard (batched *)
(* fetches, row output, progress reports) and the pure helpers it renders  *)
(* rows with (getSeverityLabel, getFixedVersion, getNVDFixedVersion and    *)
(* the lifecycle status computation).                                      *)
(*                                                                         *)
(* JavaScript values are records tagged with their type, strings are       *)
(* tuples of one-character strings, and numbers with a fraction are kept   *)
(* in tenths.                                                              *)
(***************************************************************************)
EXTENDS Integers, Sequences, FiniteSets, TLC

VARIABLES
    config,       \* myToolsConfig: the configured tool list
    batchSize,    \* BATCH_SIZE of this run
    i,            \* the loop variable of initDashboard (0-based)
    pc,           \* where initDashboard stands
    lc,           \* per tool: the lifecycle fetch
    osv,          \* per tool: the fetch of advisory source A (OSV)
    nvd,          \* per tool: the fetch of advisory source B (NVD)
    rows,         \* tableBody: the rows appended so far
    progressLog,  \* the itemCount texts written so far, as <<done, total>>
    outOfOrder,   \* history: a tool's fetches finished before an earlier tool's of its batch
    input,        \* argument of a helper function
    output        \* its result

vars == <<config, batchSize, i, pc, lc, osv, nvd, rows, progressLog, outOfOrder, input, output>>

\* ------------------------------------------------------------------ bounds

MaxTools == 3

MaxBatch == 2

MaxConfigured == 12

BATCH_SIZE == 5

\* ------------------------------------------------------- JavaScript values

Undefined == [js |-> "undefined"]

Null == [js |-> "null"]

Str(cs) == [js |-> "string", chars |-> cs]

\* a number, in tenths
Num(t) == [js |-> "number", nan |-> FALSE, tenths |-> t]

NaN == [js |-> "number", nan |-> TRUE, tenths |-> 0]

Bool(b) == [js |-> "boolean", val |-> b]

Arr(s) == [js |-> "array", items |-> s]

\* ToBoolean
Truthy(v) ==
    CASE v.js = "string" -> v.chars # <<>>
      [] v.js = "number" -> ~v.nan /\ v.tenths # 0
      [] v.js = "boolean" -> v.val
      [] v.js \in {"array", "object"} -> TRUE
      [] OTHER -> FALSE

\* a || b
Or(a, b) == IF Truthy(a) THEN a ELSE b

SeqsUpTo(S, n) == UNION {[1..k -> S] : k \in 0..n}

Min(a, b) == IF a <= b THEN a ELSE b

\* ------------------------------------------------------ aggregation driver

NotIssued == [state |-> "none", isArray |-> FALSE, length |-> 0]

InFlight == [state |-> "inflight", isArray |-> FALSE, length |-> 0]

\* the results array of an iteration that has ended: its values are out of scope
Dropped == [state |-> "dropped", isArray |-> FALSE, length |-> 0]

\* the value an advisory fetch resolved to: an array of the given length
List(k) == [state |-> "settled", isArray |-> TRUE, length |-> k]

\* the string 'Err' the advisory fetchers return on failure ('Err'.length is 3)
Err == [state |-> "settled", isArray |-> FALSE, length |-> 3]

AdvisoryOutcomes == {Err, List(0), List(2)}

Versions == {Str(<<>>), Str(<<"5", ".", "1">>)}

N == Len(config)

Tools == 1..N

\* the tools of the batch the loop stands in: myToolsConfig.slice(i, i + BATCH_SIZE)
Batch == {t \in Tools : i < t /\ t <= i + batchSize}

LcAnswered(t) == lc[t] \in {"ok", "notok"}

LcRejected(t) == lc[t] \in {"decodeErr", "netErr"}

\* the async callback of batch.map has returned its result for tool t
Resolved(t) == LcAnswered(t) /\ osv[t].state = "settled" /\ nvd[t].state = "settled"

BatchSettledAny(b) == \E t \in b : Resolved(t)

\* the callback of t returned in this or an earlier iteration
Finished(t) == LcAnswered(t) /\ osv[t].state \in {"settled", "dropped"} /\ nvd[t].state \in {"settled", "dropped"}

\* the results of the iterations before the one that starts at i go out of scope
EndOfScope(f) == [t \in Tools |-> IF t <= i THEN Dropped ELSE f[t]]

\* Promise.all resolves once every callback of the batch has resolved
BatchSettled(b) == \A t \in b : Resolved(t)

FoundByLength(v) == v.length > 0

\* Array.isArray(v) && v.length > 0
Found(v) == v.isArray /\ v.length > 0

RowOf(t) ==
    [tool |-> t,
     osvShown |-> IF Found(osv[t]) THEN osv[t].length ELSE 0,
     nvdShown |-> IF Found(nvd[t]) THEN nvd[t].length ELSE 0,
     hasAnyVulns |-> Found(osv[t]) \/ Found(nvd[t])]

\* results.forEach over tools from..to: a tool whose lifecycle is {error: true} is
\* skipped, every other one gets its row
RECURSIVE BatchRows(_, _)
BatchRows(from, to) ==
    IF from > to THEN <<>>
    ELSE (IF lc[from] = "ok" THEN <<RowOf(from)>> ELSE <<>>) \o BatchRows(from + 1, to)

\* tableBody.insertAdjacentHTML('beforeend', rowHtml), once per row of new
InsertRows(old, new) == old \o new

ProgressReportStart(start, len, total) == <<Min(start, total), total>>

\* itemCount: `${Math.min(i + batch.length, n)} / ${n} Tools Tracked`
ProgressReport(start, len, total) == <<Min(start + len, total), total>>

DriverInit(sizes, maxN, versions) ==
    /\ batchSize \in sizes
    /\ \E n \in 0..maxN : config \in [1..n -> [current : versions]]
    /\ i = 0
    /\ pc = "loop"
    /\ lc = [t \in DOMAIN config |-> "none"]
    /\ osv = [t \in DOMAIN config |-> NotIssued]
    /\ nvd = [t \in DOMAIN config |-> NotIssued]
    /\ rows = <<>>
    /\ progressLog = <<>>
    /\ outOfOrder = FALSE
    /\ input = Undefined
    /\ output = Undefined

StartBatchAllAtOnce ==
    /\ pc = "loop"
    /\ i < N
    /\ lc' = [t \in Tools |-> IF t \in Batch THEN "inflight" ELSE lc[t]]
    /\ osv' = [t \in Tools |-> IF t \in Batch THEN InFlight ELSE EndOfScope(osv)[t]]
    /\ nvd' = [t \in Tools |-> IF t \in Batch THEN InFlight ELSE EndOfScope(nvd)[t]]
    /\ pc' = "awaiting"
    /\ UNCHANGED <<config, batchSize, i, rows, progressLog, outOfOrder, input, output>>

\* one iteration's entry: batch.map calls the callback of every tool of the batch,
\* and each runs to its first await, the lifecycle fetch
StartBatch ==
    /\ pc = "loop"
    /\ i < N
    /\ lc' = [t \in Tools |-> IF t \in Batch THEN "inflight" ELSE lc[t]]
    /\ osv' = EndOfScope(osv)
    /\ nvd' = EndOfScope(nvd)
    /\ pc' = "awaiting"
    /\ UNCHANGED <<config, batchSize, i, rows, progressLog, outOfOrder, input, output>>

\* the for loop's condition fails
ExitLoop ==
    /\ pc = "loop"
    /\ i >= N
    /\ osv' = EndOfScope(osv)
    /\ nvd' = EndOfScope(nvd)
    /\ pc' = "done"
    /\ UNCHANGED <<config, batchSize, i, lc, rows, progressLog, outOfOrder, input, output>>

Overtakes(t) == \E u \in Batch : u < t /\ ~Resolved(u) /\ ~LcRejected(u)

\* the lifecycle fetch of t is answered: r.ok ? r.json() : {error: true}. The callback
\* goes on to fetchOSVVulnerabilities, which returns [] without a fetch when the
\* version is falsy, and so does fetchNVDVulnerabilities after it.
LifecycleResponds(t, o) ==
    /\ lc[t] = "inflight"
    /\ lc' = [lc EXCEPT ![t] = o]
    /\ IF Truthy(config[t].current)
       THEN /\ osv' = [osv EXCEPT ![t] = InFlight]
            /\ UNCHANGED <<nvd, outOfOrder>>
       ELSE /\ osv' = [osv EXCEPT ![t] = List(0)]
            /\ nvd' = [nvd EXCEPT ![t] = List(0)]
            /\ outOfOrder' = (outOfOrder \/ Overtakes(t))
    /\ UNCHANGED <<config, batchSize, i, pc, rows, progressLog, input, output>>

\* the lifecycle fetch rejects (a network error), or r.json() rejects (the body does not
\* decode): the callback's promise rejects, Promise.all rejects, and the catch of
\* initDashboard ends the loop. The other callbacks of the batch run on.
LifecycleRejects(t, o) ==
    /\ lc[t] = "inflight"
    /\ lc' = [lc EXCEPT ![t] = o]
    /\ pc' = IF pc = "awaiting" THEN "caught" ELSE pc
    /\ UNCHANGED <<config, batchSize, i, osv, nvd, rows, progressLog, outOfOrder, input, output>>

\* fetchOSVVulnerabilities returns: data.vulns || [], or 'Err' from its catch; the
\* callback goes on to fetchNVDVulnerabilities
OsvSettles(t, o) ==
    /\ osv[t] = InFlight
    /\ osv' = [osv EXCEPT ![t] = o]
    /\ nvd' = [nvd EXCEPT ![t] = InFlight]
    /\ UNCHANGED <<config, batchSize, i, pc, lc, rows, progressLog, outOfOrder, input, output>>

\* a callback that appends its tool's row itself, as soon as its last fetch settles
NvdSettlesAndRenders(t, o) ==
    /\ nvd[t] = InFlight
    /\ nvd' = [nvd EXCEPT ![t] = o]
    /\ outOfOrder' = (outOfOrder \/ Overtakes(t))
    /\ rows' = IF lc[t] = "ok"
               THEN Append(rows, [tool |-> t,
                                  osvShown |-> IF Found(osv[t]) THEN osv[t].length ELSE 0,
                                  nvdShown |-> IF Found(o) THEN o.length ELSE 0,
                                  hasAnyVulns |-> Found(osv[t]) \/ Found(o)])
               ELSE rows
    /\ UNCHANGED <<config, batchSize, i, pc, lc, osv, progressLog, input, output>>

\* fetchNVDVulnerabilities returns: data.vulnerabilities || [], or 'Err'; the callback
\* returns its result
NvdSettles(t, o) ==
    /\ nvd[t] = InFlight
    /\ nvd' = [nvd EXCEPT ![t] = o]
    /\ outOfOrder' = (outOfOrder \/ Overtakes(t))
    /\ UNCHANGED <<config, batchSize, i, pc, lc, osv, rows, progressLog, input, output>>

\* Promise.all has resolved: results.forEach appends the rows in batch order, the
\* progress is written, and the loop steps to the next batch
ProcessResults ==
    /\ pc = "awaiting"
    /\ BatchSettled(Batch)
    /\ rows' = InsertRows(rows, BatchRows(i + 1, Min(i + batchSize, N)))
    /\ progressLog' = Append(progressLog, ProgressReport(i, Cardinality(Batch), N))
    /\ i' = i + batchSize
    /\ pc' = "loop"
    /\ UNCHANGED <<config, batchSize, lc, osv, nvd, outOfOrder, input, output>>

Init == DriverInit(1..MaxBatch, MaxTools, Versions)

Next ==
    \/ StartBatch
    \/ ExitLoop
    \/ \E t \in Tools, o \in {"ok", "notok"} : LifecycleResponds(t, o)
    \/ \E t \in Tools, o \in {"decodeErr", "netErr"} : LifecycleRejects(t, o)
    \/ \E t \in Tools, o \in AdvisoryOutcomes : OsvSettles(t, o)
    \/ \E t \in Tools, o \in AdvisoryOutcomes : NvdSettles(t, o)
    \/ ProcessResults

Spec == Init /\ [][Next]_vars

\* a run of the configured batch size in which no tool records a version (so no
\* advisory request is made) and no lifecycle fetch rejects
InitProgress == DriverInit((1..MaxBatch) \cup {BATCH_SIZE}, MaxConfigured, {Str(<<>>)})

NextProgress ==
    \/ StartBatch
    \/ ExitLoop
    \/ \E t \in Tools, o \in {"ok", "notok"} : LifecycleResponds(t, o)
    \/ ProcessResults

SpecProgress == InitProgress /\ [][NextProgress]_vars

\* ------------------------------------------------- properties of the driver

BatchOf(t) == (t - 1) \div batchSize

HasRow(t) == \E k \in 1..Len(rows) : rows[k].tool = t

Issued(t) == lc[t] # "none" \/ osv[t].state # "none" \/ nvd[t].state # "none"

CeilDiv(a, b) == (a + b - 1) \div b

\* C1: the rows of the output stand in the order of the configured list, whatever
\* order the fetches of a batch settle in: a row of an earlier configured tool
\* always precedes a row of a later one.
C1_RowsInConfigOrder ==
    \A j, k \in 1..Len(rows) : j < k => rows[j].tool < rows[k].tool

\* two tools of one batch, the later one finished first, and both have their rows
C1_Witness ==
    /\ outOfOrder
    /\ N = 2
    /\ batchSize = 2
    /\ Len(rows) = 2

\* C2: batches are separated by a barrier: when any fetch of a tool has been issued,
\* every tool of every earlier batch has all its fetches settled and, if it yields a
\* row, its row appended.
C2_BatchBarrier ==
    \A t, u \in Tools :
        (BatchOf(u) < BatchOf(t) /\ Issued(t)) =>
            /\ Finished(u)
            /\ u <= i
            /\ (lc[u] = "ok" => HasRow(u))

\* a tool of a later batch has a fetch in flight, and an earlier batch left a row
C2_Witness ==
    \E t, u \in Tools :
        /\ BatchOf(u) < BatchOf(t)
        /\ osv[t] = InFlight
        /\ HasRow(u)

\* C3: the k-th progress report is (min(k*B, n), n); while a batch is awaited the
\* requests issued so far are exactly those of the first min(i+B, n) tools; a run
\* that ends without a rejection has made ceil(n/B) reports; and for n = 12, B = 5
\* the batches hold 5, 5 and 2 tools and the reports are (5,12), (10,12), (12,12).
C3_ProgressReports ==
    /\ \A k \in 1..Len(progressLog) : progressLog[k] = <<Min(k * batchSize, N), N>>
    /\ pc = "awaiting" =>
          /\ {t \in Tools : lc[t] # "none"} = 1..Min(i + batchSize, N)
          /\ Len(progressLog) = i \div batchSize
          /\ i % batchSize = 0
    /\ pc = "done" => Len(progressLog) = CeilDiv(N, batchSize)
    /\ (N = 12 /\ batchSize = 5 /\ pc = "awaiting") =>
          \/ i = 0 /\ Cardinality(Batch) = 5
          \/ i = 5 /\ Cardinality(Batch) = 5
          \/ i = 10 /\ Cardinality(Batch) = 2
    /\ (N = 12 /\ batchSize = 5 /\ pc = "done") =>
          progressLog = << <<5, 12>>, <<10, 12>>, <<12, 12>> >>

\* twelve tools in batches of five, some of them skipped, all three reports made
C3_Witness ==
    /\ N = 12
    /\ batchSize = 5
    /\ pc = "done"
    /\ Len(rows) < 12
    /\ lc[3] = "notok"
    /\ progressLog = << <<5, 12>>, <<10, 12>>, <<12, 12>> >>

\* C4 (as claimed): a failed lifecycle fetch, be it a non-success response or a body
\* that does not decode, costs only that tool's row: when the run has ended every
\* batch has run and every tool whose lifecycle fetch and advisory fetches succeeded
\* has its row. (Runs with a network-level rejection are left aside.)
C4_LifecycleFailureNotFatal ==
    (pc \in {"done", "caught"} /\ \A t \in Tools : lc[t] # "netErr") =>
        \A t \in Tools :
            /\ lc[t] # "none"
            /\ (lc[t] = "ok" /\ Finished(t)) => HasRow(t)

\* C5: a failure of one advisory source does not cost the tool its row: every tool
\* of a processed batch whose lifecycle fetch succeeded has a row; the row (looked
\* at while the results it was made of are in scope) shows the length of the list
\* a source returned and 0 for a source that failed; and hasAnyVulns holds exactly
\* if one of the two sources returned a list of one or more records.
C5_AdvisoryFailureIsolated ==
    /\ \A t \in Tools : (t <= i /\ lc[t] = "ok") => HasRow(t)
    /\ \A k \in 1..Len(rows) :
          LET r == rows[k]
              a == osv[r.tool]
              b == nvd[r.tool]
          IN  a.state = "settled" =>
              /\ b.state = "settled"
              /\ r.osvShown = (IF a.isArray THEN a.length ELSE 0)
              /\ r.nvdShown = (IF b.isArray THEN b.length ELSE 0)
              /\ r.hasAnyVulns = ((a.isArray /\ a.length >= 1) \/ (b.isArray /\ b.length >= 1))

\* a row of a tool whose source A failed and whose source B returned records
C5_Witness ==
    \E k \in 1..Len(rows) :
        /\ osv[rows[k].tool] = Err
        /\ nvd[rows[k].tool] = List(2)
        /\ rows[k].hasAnyVulns
        /\ rows[k].osvShown = 0

UpperCase == <<"A", "B", "C", "D", "E", "F", "G", "H", "I", "J", "K", "L", "M",
               "N", "O", "P", "Q", "R", "S", "T", "U", "V", "W", "X", "Y", "Z">>

LowerCase == <<"a", "b", "c", "d", "e", "f", "g", "h", "i", "j", "k", "l", "m",
               "n", "o", "p", "q", "r", "s", "t", "u", "v", "w", "x", "y", "z">>

Digits == <<"0", "1", "2", "3", "4", "5", "6", "7", "8", "9">>

IsDigit(c) == \E d \in DOMAIN Digits : Digits[d] = c

DigitVal(c) == (CHOOSE d \in DOMAIN Digits : Digits[d] = c) - 1

\* String.prototype.toLowerCase
ToLowerCase(cs) ==
    [k \in DOMAIN cs |->
        IF \E u \in DOMAIN UpperCase : UpperCase[u] = cs[k]
        THEN LowerCase[CHOOSE u \in DOMAIN UpperCase : UpperCase[u] = cs[k]]
        ELSE cs[k]]

RECURSIVE TrimStart(_)
TrimStart(cs) == IF cs # <<>> /\ Head(cs) = " " THEN TrimStart(Tail(cs)) ELSE cs

RECURSIVE TrimEnd(_)
TrimEnd(cs) ==
    IF cs # <<>> /\ cs[Len(cs)] = " " THEN TrimEnd(SubSeq(cs, 1, Len(cs) - 1)) ELSE cs

\* String.prototype.trim
Trim(cs) == TrimEnd(TrimStart(cs))

\* String.prototype.includes
Includes(cs, sub) ==
    \E k \in 0..(Len(cs) - Len(sub)) : SubSeq(cs, k + 1, k + Len(sub)) = sub

RECURSIVE LeadingDigits(_)
LeadingDigits(cs) ==
    IF cs # <<>> /\ IsDigit(Head(cs)) THEN 1 + LeadingDigits(Tail(cs)) ELSE 0

RECURSIVE DecimalValue(_)
DecimalValue(ds) ==
    IF ds = <<>> THEN 0
    ELSE 10 * DecimalValue(SubSeq(ds, 1, Len(ds) - 1)) + DigitVal(ds[Len(ds)])

\* parseFloat of an unsigned decimal without exponent: leading blanks are skipped,
\* the longest prefix that is a number is read, NaN if there is none. The value is
\* cut to tenths, which no comparison with 9.0, 7.0 or 4.0 can tell from the value.
ParseFloatChars(cs) ==
    LET s == TrimStart(cs)
        n == LeadingDigits(s)
        rest == SubSeq(s, n + 1, Len(s))
        f == IF rest # <<>> /\ Head(rest) = "." THEN LeadingDigits(Tail(rest)) ELSE 0
    IN  IF n = 0 /\ f = 0 THEN NaN
        ELSE Num(10 * DecimalValue(SubSeq(s, 1, n)) + (IF f > 0 THEN DigitVal(rest[2]) ELSE 0))

\* parseFloat(v): of a number the number, of a string what its prefix reads as, of
\* undefined NaN
ParseFloat(v) ==
    CASE v.js = "number" -> v
      [] v.js = "string" -> ParseFloatChars(v.chars)
      [] OTHER -> NaN

\* ------------------------------------------------------- severity (source A)

CRITICAL == Str(<<"C", "r", "i", "t", "i", "c", "a", "l">>)

HIGH == Str(<<"H", "i", "g", "h">>)

MEDIUM == Str(<<"M", "e", "d", "i", "u", "m">>)

LOW == Str(<<"L", "o", "w">>)

UNKNOWN == Str(<<"U", "n", "k", "n", "o", "w", "n">>)

\* {}: every property of it is undefined
EmptyObject ==
    [js |-> "object", ubuntu_priority |-> Undefined, priority |-> Undefined,
     severity |-> Undefined, level |-> Undefined, cvss_score |-> Undefined]

IsCvss(e) == e.type \in {"CVSS_V3", "CVSS_V2"}

\* a finder that looks for a CVSS_V3 entry first and for a CVSS_V2 entry after it
FindCvssPreferV3(sev) ==
    IF sev.js # "array" THEN Undefined
    ELSE IF \E k \in DOMAIN sev.items : sev.items[k].type = "CVSS_V3"
         THEN sev.items[CHOOSE k \in DOMAIN sev.items :
                  /\ sev.items[k].type = "CVSS_V3"
                  /\ \A j \in 1..(k - 1) : sev.items[j].type # "CVSS_V3"]
         ELSE IF \E k \in DOMAIN sev.items : sev.items[k].type = "CVSS_V2"
              THEN sev.items[CHOOSE k \in DOMAIN sev.items :
                       /\ sev.items[k].type = "CVSS_V2"
                       /\ \A j \in 1..(k - 1) : sev.items[j].type # "CVSS_V2"]
              ELSE Undefined

\* vuln.severity?.find(s => s.type === 'CVSS_V3' || s.type === 'CVSS_V2')
RECURSIVE FindCvssFrom(_, _)
FindCvssFrom(items, k) ==
    IF k > Len(items) THEN Undefined
    ELSE IF IsCvss(items[k]) THEN items[k] ELSE FindCvssFrom(items, k + 1)

FindCvss(sev) == IF sev.js # "array" THEN Undefined ELSE FindCvssFrom(sev.items, 1)

\* the four tiers of a score
ScoreLabel(score) ==
    IF score.nan THEN UNKNOWN
    ELSE IF score.tenths >= 90 THEN CRITICAL
    ELSE IF score.tenths >= 70 THEN HIGH
    ELSE IF score.tenths >= 40 THEN MEDIUM
    ELSE LOW

SeverityScore(vuln) ==
    LET dbSpec == Or(vuln.database_specific, EmptyObject)
        cvssObj == FindCvss(vuln.severity)
    IN  IF Truthy(cvssObj) THEN ParseFloat(cvssObj.score) ELSE ParseFloat(dbSpec.cvss_score)

getSeverityLabelScoreFirst(vuln) ==
    LET dbSpec == Or(vuln.database_specific, EmptyObject)
        priority == Or(Or(Or(dbSpec.ubuntu_priority, dbSpec.priority), dbSpec.severity), dbSpec.level)
        label == IF priority.js = "string" THEN ToLowerCase(Trim(priority.chars)) ELSE <<>>
        hasLabel == Truthy(priority) /\ priority.js = "string"
    IN  IF ~SeverityScore(vuln).nan THEN ScoreLabel(SeverityScore(vuln))
        ELSE IF hasLabel /\ Includes(label, <<"c", "r", "i", "t">>) THEN CRITICAL
        ELSE IF hasLabel /\ Includes(label, <<"h", "i", "g", "h">>) THEN HIGH
        ELSE IF hasLabel /\ Includes(label, <<"m", "e", "d">>) THEN MEDIUM
        ELSE IF hasLabel /\ Includes(label, <<"l", "o", "w">>) THEN LOW
        ELSE UNKNOWN

getSeverityLabel(vuln) ==
    LET dbSpec == Or(vuln.database_specific, EmptyObject)
        priority == Or(Or(Or(dbSpec.ubuntu_priority, dbSpec.priority), dbSpec.severity), dbSpec.level)
        label == IF priority.js = "string" THEN ToLowerCase(Trim(priority.chars)) ELSE <<>>
        hasLabel == Truthy(priority) /\ priority.js = "string"
    IN  IF hasLabel /\ Includes(label, <<"c", "r", "i", "t">>) THEN CRITICAL
        ELSE IF hasLabel /\ Includes(label, <<"h", "i", "g", "h">>) THEN HIGH
        ELSE IF hasLabel /\ Includes(label, <<"m", "e", "d">>) THEN MEDIUM
        ELSE IF hasLabel /\ Includes(label, <<"l", "o", "w">>) THEN LOW
        ELSE ScoreLabel(SeverityScore(vuln))

\* the driver at rest, for the specifications of the helper functions
DriverIdle ==
    /\ config = <<>>
    /\ batchSize = BATCH_SIZE
    /\ i = 0
    /\ pc = "call"
    /\ lc = <<>>
    /\ osv = <<>>
    /\ nvd = <<>>
    /\ rows = <<>>
    /\ progressLog = <<>>
    /\ outOfOrder = FALSE

MaxSeverityEntries == 2

\* values of a vendor field: absent, empty, a number, and strings with and without
\* the four marks, in upper and lower case, padded and inside a longer word
PrioritySamples ==
    {Undefined,
     Str(<<>>),
     Num(50),
     Str(<<"n", "e", "g", "l", ".">>),
     Str(<<" ", "H", "i", "g", "h", " ">>),
     Str(<<"l", "o", "w", "C", "R", "I", "T">>),
     Str(<<"x", "M", "e", "d", "x">>)}

LevelSamples ==
    {Undefined,
     Str(<<"L", "O", "W">>),
     Str(<<"c", "r", "i", "t", "i", "c", "a", "l">>)}

ScoreSamples == {Undefined, Str(<<"7", ".", "5">>), Num(39)}

SeverityEntries ==
    {[js |-> "object", type |-> "CVSS_V3", score |-> Str(<<"9", ".", "8">>)],
     [js |-> "object", type |-> "CVSS_V3", score |-> Str(<<"C", "V", "S", "S", ":", "3", ".", "1", "/", "A", "V", ":", "N">>)],
     [js |-> "object", type |-> "CVSS_V2", score |-> Str(<<" ", "5", ".", "0">>)],
     [js |-> "object", type |-> "CVSS_V4", score |-> Str(<<"2">>)]}

DbSpecSamples ==
    {Undefined} \cup
    [js : {"object"}, ubuntu_priority : PrioritySamples, priority : PrioritySamples,
     severity : LevelSamples, level : LevelSamples, cvss_score : ScoreSamples]

SeverityInputs ==
    [database_specific : DbSpecSamples,
     severity : {Undefined} \cup {Arr(s) : s \in SeqsUpTo(SeverityEntries, MaxSeverityEntries)}]

InitSeverity ==
    /\ DriverIdle
    /\ input \in SeverityInputs
    /\ output = Undefined

\* a row's severity badge: getSeverityLabel(v)
CallSeverity ==
    /\ pc = "call"
    /\ output' = getSeverityLabel(input)
    /\ pc' = "return"
    /\ UNCHANGED <<config, batchSize, i, lc, osv, nvd, rows, progressLog, outOfOrder, input>>

NextSeverity == CallSeverity

SpecSeverity == InitSeverity /\ [][NextSeverity]_vars

\* ------------------------------------------- properties of getSeverityLabel

\* the marks looked for, in the order the code looks for them
Marks == << <<"c", "r", "i", "t">>, <<"h", "i", "g", "h">>, <<"m", "e", "d">>, <<"l", "o", "w">> >>

MarkLabels == <<CRITICAL, HIGH, MEDIUM, LOW>>

VendorFields(vuln) ==
    LET d == IF vuln.database_specific.js = "object" THEN vuln.database_specific ELSE EmptyObject
    IN  <<d.ubuntu_priority, d.priority, d.severity, d.level>>

VendorScore(vuln) ==
    IF vuln.database_specific.js = "object" THEN vuln.database_specific.cvss_score ELSE Undefined

\* v is a string that contains mark m, in whatever case
HasMark(v, m) == v.js = "string" /\ Includes(ToLowerCase(v.chars), Marks[m])

\* the first of the vendor fields that is set (truthy), undefined if none is
FirstSet(vuln) ==
    LET fs == VendorFields(vuln)
    IN  IF \E k \in 1..4 : Truthy(fs[k])
        THEN fs[CHOOSE k \in 1..4 : Truthy(fs[k]) /\ \A j \in 1..(k - 1) : ~Truthy(fs[j])]
        ELSE Undefined

HasVendorLabel(vuln) == \E m \in 1..4 : HasMark(FirstSet(vuln), m)

\* C7 (as claimed): if any vendor field is a string that contains one of the marks,
\* the label returned is the label of a mark some vendor field contains.
C7_AnyVendorFieldDecides ==
    pc = "return" =>
        ((\E f \in 1..4, m \in 1..4 : HasMark(VendorFields(input)[f], m)) =>
            \E f \in 1..4, m \in 1..4 :
                HasMark(VendorFields(input)[f], m) /\ output = MarkLabels[m])

\* C7 (amended): only the first vendor field that is set is looked at; if it is a
\* string that contains a mark, the label is that of the first of crit, high, med,
\* low it contains, whatever scores the record holds.
C7_FirstSetFieldDecides ==
    pc = "return" =>
        (HasVendorLabel(input) =>
            output = MarkLabels[CHOOSE m \in 1..4 :
                         /\ HasMark(FirstSet(input), m)
                         /\ \A j \in 1..(m - 1) : ~HasMark(FirstSet(input), j)])

\* a record labelled High by its vendor whose CVSS v3 score of 9.8 reads Critical
C7_Witness ==
    /\ pc = "return"
    /\ FirstSet(input) = Str(<<" ", "H", "i", "g", "h", " ">>)
    /\ input.severity.js = "array"
    /\ Len(input.severity.items) = 1
    /\ input.severity.items[1].score = Str(<<"9", ".", "8">>)
    /\ output = HIGH

EntriesOfType(sev, ty) ==
    IF sev.js = "array" THEN {k \in DOMAIN sev.items : sev.items[k].type \in ty} ELSE {}

FirstOfType(sev, ty) ==
    sev.items[CHOOSE k \in EntriesOfType(sev, ty) : \A j \in EntriesOfType(sev, ty) : k <= j]

\* C8 (as claimed): without a vendor label, a severity list that holds a CVSS v3 and
\* a CVSS v2 entry is classified by the v3 entry's score, and the vendor's
\* cvss_score is used only when the list holds neither.
C8_PrefersV3 ==
    (pc = "return" /\ ~HasVendorLabel(input)) =>
        /\ (EntriesOfType(input.severity, {"CVSS_V3"}) # {} /\ EntriesOfType(input.severity, {"CVSS_V2"}) # {}) =>
              output = ScoreLabel(ParseFloat(FirstOfType(input.severity, {"CVSS_V3"}).score))
        /\ EntriesOfType(input.severity, {"CVSS_V3", "CVSS_V2"}) = {} =>
              output = ScoreLabel(ParseFloat(VendorScore(input)))

\* C8 (amended): without a vendor label, the record is classified by the score of
\* the entry of type CVSS v3 or CVSS v2 that comes first in the severity list,
\* whichever of the two types it has; the vendor's cvss_score is used only when the
\* list holds neither.
C8_FirstCvssEntryDecides ==
    (pc = "return" /\ ~HasVendorLabel(input)) =>
        output =
            IF EntriesOfType(input.severity, {"CVSS_V3", "CVSS_V2"}) # {}
            THEN ScoreLabel(ParseFloat(FirstOfType(input.severity, {"CVSS_V3", "CVSS_V2"}).score))
            ELSE ScoreLabel(ParseFloat(VendorScore(input)))

\* a v2 entry of score 5.0 ahead of a v3 entry of score 9.8: the label is Medium
C8_Witness ==
    /\ pc = "return"
    /\ ~HasVendorLabel(input)
    /\ input.severity.js = "array"
    /\ Len(input.severity.items) = 2
    /\ input.severity.items[1].type = "CVSS_V2"
    /\ input.severity.items[2].type = "CVSS_V3"
    /\ input.severity.items[2].score = Str(<<"9", ".", "8">>)
    /\ VendorScore(input) = Num(39)
    /\ output = MEDIUM

\* ------------------------------------------------------------ fixed version

NONE == Str(<<"N", "o", "n", "e">>)

NOT_FIXED == Str(<<"N", "o", "t", " ", "F", "i", "x", "e", "d">>)

CHECK_NVD == Str(<<"C", "h", "e", "c", "k", " ", "N", "V", "D">>)

\* a TypeError thrown out of the function
Thrown == [js |-> "throw"]

RECURSIVE FindLastFixedFrom(_, _)
FindLastFixedFrom(events, k) ==
    IF k < 1 THEN Undefined
    ELSE IF Truthy(events[k].fixed) THEN events[k] ELSE FindLastFixedFrom(events, k - 1)

FindLastFixed(events) ==
    IF events.js # "array" THEN Undefined ELSE FindLastFixedFrom(events.items, Len(events.items))

RECURSIVE FindFixedFrom(_, _)
FindFixedFrom(events, k) ==
    IF k > Len(events) THEN Undefined
    ELSE IF Truthy(events[k].fixed) THEN events[k] ELSE FindFixedFrom(events, k + 1)

\* range.events?.find(e => e.fixed)
FindFixed(events) ==
    IF events.js # "array" THEN Undefined ELSE FindFixedFrom(events.items, 1)

\* for (const range of affected.ranges): the fixed version of the first range that
\* has a fixed event, undefined if the loop ends
RECURSIVE ScanRanges(_, _)
ScanRanges(ranges, k) ==
    IF k > Len(ranges) THEN Undefined
    ELSE LET fixedEvent == FindFixed(ranges[k].events)
         IN  IF Truthy(fixedEvent) THEN fixedEvent.fixed ELSE ScanRanges(ranges, k + 1)

\* for (const affected of vuln.affected)
RECURSIVE ScanAffected(_, _)
ScanAffected(affected, k) ==
    IF k > Len(affected) THEN NOT_FIXED
    ELSE IF ~Truthy(affected[k].ranges) THEN ScanAffected(affected, k + 1)
    ELSE LET found == ScanRanges(affected[k].ranges.items, 1)
         IN  IF found # Undefined THEN found ELSE ScanAffected(affected, k + 1)

getFixedVersion(vuln) ==
    IF ~Truthy(vuln.affected) THEN NONE ELSE ScanAffected(vuln.affected.items, 1)

\* for (const match of node.cpeMatch)
RECURSIVE ScanMatches(_, _)
ScanMatches(matches, k) ==
    IF k > Len(matches) THEN Undefined
    ELSE IF Truthy(matches[k].versionEndExcluding) THEN matches[k].versionEndExcluding
    ELSE ScanMatches(matches, k + 1)

\* for (const node of config.nodes)
RECURSIVE ScanNodes(_, _)
ScanNodes(nodes, k) ==
    IF k > Len(nodes) THEN Undefined
    ELSE IF ~Truthy(nodes[k].cpeMatch) THEN ScanNodes(nodes, k + 1)
    ELSE LET found == ScanMatches(nodes[k].cpeMatch.items, 1)
         IN  IF found # Undefined THEN found ELSE ScanNodes(nodes, k + 1)

\* for (const config of cve.configurations): a config without nodes is not iterable
RECURSIVE ScanConfigurations(_, _)
ScanConfigurations(configs, k) ==
    IF k > Len(configs) THEN CHECK_NVD
    ELSE IF configs[k].nodes.js # "array" THEN Thrown
    ELSE LET found == ScanNodes(configs[k].nodes.items, 1)
         IN  IF found # Undefined THEN found ELSE ScanConfigurations(configs, k + 1)

getNVDFixedVersion(cve) ==
    IF ~Truthy(cve.configurations) THEN NOT_FIXED
    ELSE ScanConfigurations(cve.configurations.items, 1)

MaxAffected == 2

MaxRanges == 1

MaxConfigurations == 2

MaxNodes == 1

V12 == Str(<<"1", ".", "2">>)

V20 == Str(<<"2", ".", "0">>)

Event(f) == [js |-> "object", fixed |-> f]

\* events lists: absent, without a fix, with one, with a fix after an event that
\* has none, and with several fixes after an empty one
EventsSamples ==
    {Undefined,
     Arr(<<Event(Undefined)>>),
     Arr(<<Event(V12)>>),
     Arr(<<Event(Undefined), Event(V20)>>),
     Arr(<<Event(Str(<<>>)), Event(V20), Event(V12)>>)}

RangesSamples ==
    {Undefined} \cup
    {Arr(s) : s \in SeqsUpTo([js : {"object"}, events : EventsSamples], MaxRanges)}

AffectedSamples ==
    {Undefined} \cup
    {Arr(s) : s \in SeqsUpTo([js : {"object"}, ranges : RangesSamples], MaxAffected)}

Match(v) == [js |-> "object", versionEndExcluding |-> v]

CpeMatchSamples ==
    {Undefined,
     Arr(<<Match(Undefined)>>),
     Arr(<<Match(V12)>>),
     Arr(<<Match(Undefined), Match(V20)>>),
     Arr(<<Match(Str(<<>>)), Match(V20), Match(V12)>>)}

NodesSamples ==
    {Undefined} \cup
    {Arr(s) : s \in SeqsUpTo([js : {"object"}, cpeMatch : CpeMatchSamples], MaxNodes)}

ConfigurationsSamples ==
    {Undefined} \cup
    {Arr(s) : s \in SeqsUpTo([js : {"object"}, nodes : NodesSamples], MaxConfigurations)}

FixedInputs ==
    [shape : {"A"}, affected : AffectedSamples] \cup
    [shape : {"B"}, configurations : ConfigurationsSamples]

InitFixed ==
    /\ DriverIdle
    /\ input \in FixedInputs
    /\ output = Undefined

\* a row of the OSV table: getFixedVersion(v)
CallFixedVersion ==
    /\ pc = "call"
    /\ input.shape = "A"
    /\ output' = getFixedVersion(input)
    /\ pc' = "return"
    /\ UNCHANGED <<config, batchSize, i, lc, osv, nvd, rows, progressLog, outOfOrder, input>>

\* a row of the NVD table: getNVDFixedVersion(v.cve)
CallNVDFixedVersion ==
    /\ pc = "call"
    /\ input.shape = "B"
    /\ output' = getNVDFixedVersion(input)
    /\ pc' = "return"
    /\ UNCHANGED <<config, batchSize, i, lc, osv, nvd, rows, progressLog, outOfOrder, input>>

NextFixed == CallFixedVersion \/ CallNVDFixedVersion

SpecFixed == InitFixed /\ [][NextFixed]_vars

\* ------------------------------------- properties of the fixed-version pair

ItemsOf(a) == IF a.js = "array" THEN a.items ELSE <<>>

RECURSIVE FixedOfRanges(_)
FixedOfRanges(ranges) ==
    IF ranges = <<>> THEN <<>>
    ELSE [k \in DOMAIN ItemsOf(Head(ranges).events) |-> ItemsOf(Head(ranges).events)[k].fixed]
         \o FixedOfRanges(Tail(ranges))

RECURSIVE FixedOfAffected(_)
FixedOfAffected(affected) ==
    IF affected = <<>> THEN <<>>
    ELSE FixedOfRanges(ItemsOf(Head(affected).ranges)) \o FixedOfAffected(Tail(affected))

RECURSIVE BoundsOfNodes(_)
BoundsOfNodes(nodes) ==
    IF nodes = <<>> THEN <<>>
    ELSE [k \in DOMAIN ItemsOf(Head(nodes).cpeMatch) |-> ItemsOf(Head(nodes).cpeMatch)[k].versionEndExcluding]
         \o BoundsOfNodes(Tail(nodes))

RECURSIVE BoundsOfConfigurations(_)
BoundsOfConfigurations(configs) ==
    IF configs = <<>> THEN <<>>
    ELSE BoundsOfNodes(ItemsOf(Head(configs).nodes)) \o BoundsOfConfigurations(Tail(configs))

\* the record's outermost list, and the non-empty bounds it holds, in nested order
OuterList(in) == IF in.shape = "A" THEN in.affected ELSE in.configurations

BoundsInOrder(in) ==
    SelectSeq(IF in.shape = "A" THEN FixedOfAffected(ItemsOf(in.affected))
              ELSE BoundsOfConfigurations(ItemsOf(in.configurations)),
              Truthy)

\* every configuration of a shape-B record has its nodes list
WellFormed(in) ==
    in.shape = "B" =>
        \A k \in DOMAIN ItemsOf(in.configurations) : in.configurations.items[k].nodes.js = "array"

C9_WitnessFirstBound ==
    /\ pc = "return"
    /\ input.shape = "A"
    /\ Len(BoundsInOrder(input)) >= 3
    /\ BoundsInOrder(input)[1] = V20
    /\ output = V20

\* --------------------------------------------------------- lifecycle status

HoursPerDay == 24

WarningDays == 90

\* a whole number
Whole(n) == Num(10 * n)

RECURSIVE NatChars(_)
NatChars(n) == IF n < 10 THEN <<Digits[n + 1]>> ELSE NatChars(n \div 10) \o <<Digits[(n % 10) + 1]>>

IntChars(n) == IF n < 0 THEN <<"-">> \o NatChars(0 - n) ELSE NatChars(n)

\* Number.prototype.toString of a number of tenths, String.prototype.toString of a
\* string: 5.1 gives "5.1", 5.0 gives "5"
ToStringChars(v) ==
    IF v.js = "string" THEN v.chars
    ELSE NatChars(v.tenths \div 10) \o
         (IF v.tenths % 10 = 0 THEN <<>> ELSE <<".", Digits[(v.tenths % 10) + 1]>>)

\* new Date(dateStr), in hours: dates are written as the number of their day, and a
\* string that is no date gives an invalid Date (NaN)
DateOf(chars) ==
    IF chars # <<>> /\ LeadingDigits(chars) = Len(chars)
    THEN Whole(DecimalValue(chars) * HoursPerDay)
    ELSE NaN

\* Math.ceil(a / b) for b > 0
Ceil(a, b) == 0 - ((0 - a) \div b)

calculateDaysRemaining(dateStr, now) ==
    IF ~Truthy(dateStr) THEN Null
    ELSE IF DateOf(dateStr.chars).nan THEN NaN
    ELSE Whole(Ceil((DateOf(dateStr.chars).tenths \div 10) - now, HoursPerDay))

\* a comparison that leaves out the test for null: null <= 90 holds in JavaScript
NearEolNullAsZero(days) ==
    IF days = Null THEN TRUE ELSE ~days.nan /\ days.tenths <= 10 * WarningDays

\* daysUntilEol !== null && daysUntilEol <= 90
NearEol(days) ==
    days # Null /\ ~days.nan /\ days.tenths <= 10 * WarningDays

RECURSIVE FindRelease(_, _, _)
FindRelease(releases, name, k) ==
    IF k > Len(releases) THEN Undefined
    ELSE IF releases[k].name = Str(name) THEN releases[k]
    ELSE FindRelease(releases, name, k + 1)

END_OF_LIFE == Str(<<"E", "n", "d", " ", "o", "f", " ", "L", "i", "f", "e">>)

MAINTAINED == Str(<<"M", "a", "i", "n", "t", "a", "i", "n", "e", "d">>)

VERSION_UNKNOWN == Str(<<"V", "e", "r", "s", "i", "o", "n", " ", "U", "n", "k", "n", "o", "w", "n">>)

\* ${v} of a template literal, for null and for a whole number
TemplateChars(v) ==
    IF v = Null THEN <<"n", "u", "l", "l">>
    ELSE IF v.nan THEN <<"N", "a", "N">>
    ELSE IntChars(v.tenths \div 10)

\* `EOL in ${daysUntilEol} Days`
EolIn(days) ==
    Str(<<"E", "O", "L", " ", "i", "n", " ">> \o TemplateChars(days) \o <<" ", "D", "a", "y", "s">>)

\* the status of a row: lines 214 to 225 of initDashboard
ResolveStatus(releases, current, now) ==
    LET currentCycle == FindRelease(releases, ToStringChars(current), 1)
        matched == Truthy(currentCycle)
        daysUntilEol == calculateDaysRemaining(IF matched THEN currentCycle.eolFrom ELSE Undefined, now)
        isEol == IF matched THEN currentCycle.isEol ELSE Null
    IN  [daysUntilEol |-> daysUntilEol,
         isEol |-> isEol,
         statusText |->
            IF ~matched THEN VERSION_UNKNOWN
            ELSE IF ~Truthy(isEol) /\ NearEol(daysUntilEol) THEN EolIn(daysUntilEol)
            ELSE IF Truthy(isEol) THEN END_OF_LIFE
            ELSE MAINTAINED,
         statusClass |->
            IF ~matched THEN "status-neutral"
            ELSE IF Truthy(isEol) THEN "status-eol"
            ELSE IF NearEol(daysUntilEol) THEN "status-warning"
            ELSE "status-active"]

MaxReleases == 2

\* the hour of the run: midnight of day 100, and an hour later
NowSamples == {100 * HoursPerDay, 100 * HoursPerDay + 1}

\* EOL dates: none, 90 and 91 days after day 100, and a string that is no date
EolSamples == {Undefined, Str(<<"1", "9", "0">>), Str(<<"1", "9", "1">>), Str(<<"T", "B", "D">>)}

ReleaseSamples ==
    [js : {"object"},
     name : {Str(<<"5", ".", "1">>), Str(<<"5", ".", "0">>)},
     eolFrom : EolSamples,
     isEol : {Undefined, Bool(TRUE), Bool(FALSE)}]

CurrentSamples == {Str(<<"5", ".", "1">>), Str(<<"5", ".", "0">>), Num(51), Num(50)}

StatusInputs ==
    [releases : SeqsUpTo(ReleaseSamples, MaxReleases), current : CurrentSamples, now : NowSamples]

InitStatus ==
    /\ DriverIdle
    /\ input \in StatusInputs
    /\ output = Undefined

\* results.forEach computes the status of a tool whose lifecycle record arrived
CallResolveStatus ==
    /\ pc = "call"
    /\ output' = ResolveStatus(input.releases, input.current, input.now)
    /\ pc' = "return"
    /\ UNCHANGED <<config, batchSize, i, lc, osv, nvd, rows, progressLog, outOfOrder, input>>

NextStatus == CallResolveStatus

SpecStatus == InitStatus /\ [][NextStatus]_vars

\* ------------------------------------------ properties of the status table

\* the releases whose name is the string form of the current version
Matching(in) ==
    {k \in DOMAIN in.releases : in.releases[k].name.chars = ToStringChars(in.current)}

FirstMatching(in) == in.releases[CHOOSE k \in Matching(in) : \A j \in Matching(in) : k <= j]

\* C10: the status is the decision table: no release named as the current version's
\* string form: "Version Unknown", neutral, daysUntilEol null; a matched release
\* with isEol true: "End of Life", eol, whatever the day count; a matched release
\* that is not EOL with a non-null daysUntilEol <= 90: "EOL in N Days", warning;
\* every other matched release: "Maintained", active; and a matched release without
\* an EOL date has daysUntilEol null and is never classified warning.
C10_StatusTable ==
    pc = "return" =>
        IF Matching(input) = {}
        THEN /\ output.statusText = VERSION_UNKNOWN
             /\ output.statusClass = "status-neutral"
             /\ output.daysUntilEol = Null
        ELSE LET r == FirstMatching(input)
                 d == output.daysUntilEol
             IN  /\ (r.eolFrom = Undefined) => (d = Null /\ output.statusClass # "status-warning")
                 /\ IF r.isEol = Bool(TRUE)
                    THEN /\ output.statusText = END_OF_LIFE
                         /\ output.statusClass = "status-eol"
                    ELSE IF d # Null /\ ~d.nan /\ d.tenths <= 900
                    THEN /\ output.statusText =
                              Str(<<"E", "O", "L", " ", "i", "n", " ">> \o IntChars(d.tenths \div 10)
                                  \o <<" ", "D", "a", "y", "s">>)
                         /\ output.statusClass = "status-warning"
                    ELSE /\ output.statusText = MAINTAINED
                         /\ output.statusClass = "status-active"

\* the version 5.1, given as a number, matches a maintained release without an EOL
\* date: the status is "Maintained", active, with no day count
C10_Witness ==
    /\ pc = "return"
    /\ input.current = Num(51)
    /\ Matching(input) # {}
    /\ FirstMatching(input).eolFrom = Undefined
    /\ FirstMatching(input).isEol = Bool(FALSE)
    /\ output.statusText = MAINTAINED
    /\ output.statusClass = "status-active"
    /\ output.daysUntilEol = Null

\* a release 90 days before its EOL date, seen an hour into the day
C10_WitnessWarning ==
    /\ pc = "return"
    /\ input.now = 100 * HoursPerDay + 1
    /\ Matching(input) # {}
    /\ FirstMatching(input).eolFrom = Str(<<"1", "9", "0">>)
    /\ output.daysUntilEol = Whole(90)
    /\ output.statusClass = "status-warning"

====
